---------------------------- MODULE Spec2Model ----------------------------
(***************************************************************************)
(* Local instance upgrade of src/portable/upgrade.rs as a state machine.   *)
(*                                                                         *)
(* The state is the instance's filesystem paths (data_dir, backup_dir,     *)
(* dump_path, upgrade_marker), the server's run state, the installed       *)
(* packages, and for every CLI invocation its position in the code and its *)
(* local variables.  Every fallible call of the code is a step of its own  *)
(* with a success and a failure outcome; an invocation may also be killed  *)
(* between any two steps.  The cloud upgrade (upgrade_cloud) is a second   *)
(* state machine over the remote instance and the log of the upgrade       *)
(* requests sent to the cloud.                                             *)
(***************************************************************************)
EXTENDS Integers, FiniteSets, Sequences, TLC

\* ----------------------------------------------------------------- bounds
MaxMajor == 2
MaxMinor == 1
MaxInvocations == 2
NumProcs == 2

\* ------------------------------------------------------------------ values
Procs == 1..NumProcs

Records == {"r1", "r2"}

NoVer == [major |-> 0, minor |-> 0]

Versions == [major : 1..MaxMajor, minor : 0..MaxMinor]

\* ver::Specific ordering (derived Ord: major first, then minor)
VerLe(a, b) == a.major < b.major \/ (a.major = b.major /\ a.minor <= b.minor)

\* ver::Specific::is_compatible: versions of one major share the data format
is_compatible(a, b) == a.major = b.major

NoDir == [exists |-> FALSE, store |-> {}, backup_json |-> 0, info |-> NoVer,
          cert |-> "none", key |-> "none"]

\* what create_dir_all leaves when data_dir did not exist
EmptyDir == [NoDir EXCEPT !.exists = TRUE]

NoDump == [exists |-> FALSE, recs |-> {}]

NoMarker == [exists |-> FALSE, source |-> NoVer, target |-> NoVer, pid |-> 0]

\* the Upgrade options that the flow reads: force, any of the
\* to_latest/to_nightly/to_testing/to_channel/to_version options, and
\* force_dump_restore
Options == [force : BOOLEAN, ver_option : BOOLEAN, force_dump_restore : BOOLEAN]

\* the newest package of the catalog
Latest == [major |-> MaxMajor, minor |-> MaxMinor]

\* the options used when two invocations overlap
ConcOptions == {o \in Options : o.ver_option /\ ~o.force /\ ~o.force_dump_restore}

\* the server's on-disk representation of a set of logical records
OnDisk(recs, major) == {<<major, r>> : r \in recs}

\* commands::dump_all: the logical records of the instance's data
dump_all(dir) == [exists |-> TRUE, recs |-> {x[2] : x \in dir.store}]

\* commands::restore_all: the records of a dump, in the new server's format
restore_all(dump, major) == OnDisk(dump.recs, major)

\* ver::Specific as Display writes it: the text "major.minor"
to_string(v) == <<v.major, v.minor>>

\* ver::Specific::from_str; NoVer stands for its Err
from_str(s) == IF Len(s) = 2 THEN [major |-> s[1], minor |-> s[2]] ELSE NoVer

\* a version text that from_str rejects
Malformed == <<>>

Orgs == {"org1"}

Names == {"db1", "db2"}

NoCloudInstance == [exists |-> FALSE, org |-> "", name |-> "", version |-> Malformed]

\* the cloud knows one instance, org1/db1
CloudInstances ==
    {[exists |-> TRUE, org |-> "org1", name |-> "db1", version |-> t] :
        t \in {to_string(v) : v \in Versions} \cup {Malformed}}

NoArgs == [org |-> "", name |-> "", force |-> FALSE]

NoCloudLocals == [inst |-> NoCloudInstance, target_ver |-> NoVer,
                  inst_ver |-> NoVer, sent_before |-> 0]

\* UpgradeResult, with action "Err" for an Err return and "pending" before the
\* return
NoResult == [action |-> "pending", prior_version |-> NoVer,
             requested_version |-> NoVer, error |-> ""]

VARIABLES
    data_dir,        \* paths.data_dir
    backup_dir,      \* paths.backup_dir
    dump_path,       \* paths.dump_path
    upgrade_marker,  \* paths.upgrade_marker
    server,          \* "stopped", "service" (service manager) or "manual"
    installed,       \* the installed server packages
    registered,      \* the build the instance's OS service runs
    clock,           \* number of invocations started so far
    pc,              \* position of each invocation
    outcome,         \* how each invocation ended
    cmd,             \* its options (a set of one), while upgrade_local_cmd
                     \* holds them: the two upgrade functions do not get them
    pkg,             \* the package the catalog returned
    inst_ver,        \* the instance version it read first
    inst,            \* inst.installation, in memory
    path,            \* the upgrade path it selected
    spawned,         \* it runs a server process it spawned itself
    told,            \* the recovery command it printed
    in_project,      \* a project directory uses the instance
    marked,          \* data_dir when the marker was written, and whether
                     \* that upgrade has renamed it since
    pre,             \* the filesystem and run state when it started
    cloud_instance,  \* the instance as the cloud knows it
    cloud_requests,  \* the CloudInstanceUpgrade requests sent so far
    cloud_pc,        \* position of the upgrade_cloud call
    cloud_args,      \* its arguments org, name, force
    cloud_locals,    \* its variables inst, target_ver, inst_ver
    confirmed,       \* the calls of its confirm callback and their answers
    cloud_result     \* what it returned

fsvars == <<data_dir, backup_dir, dump_path, upgrade_marker, server, installed,
            registered>>

procvars == <<pc, outcome, cmd, pkg, inst_ver, inst, path, spawned, told,
              in_project, pre>>

cloudvars == <<cloud_instance, cloud_requests, cloud_pc, cloud_args,
               cloud_locals, confirmed, cloud_result>>

vars == <<data_dir, backup_dir, dump_path, upgrade_marker, server, installed,
          registered, clock, pc, outcome, cmd, pkg, inst_ver, inst, path,
          spawned, told, in_project, marked, pre, cloud_instance,
          cloud_requests, cloud_pc, cloud_args, cloud_locals, confirmed,
          cloud_result>>

\* the state an invocation can change, as one value
Snapshot == [data_dir |-> data_dir, backup_dir |-> backup_dir,
             dump_path |-> dump_path, upgrade_marker |-> upgrade_marker,
             server |-> server, installed |-> installed,
             registered |-> registered]

NoSnapshot == [data_dir |-> NoDir, backup_dir |-> NoDir, dump_path |-> NoDump,
               upgrade_marker |-> NoMarker, server |-> "stopped",
               installed |-> {}, registered |-> NoVer]

NoMarked == [data |-> NoDir, renamed |-> FALSE]

Ended == {"idle", "done", "crashed"}

InFlight(p) == pc[p] \notin Ended

\* no upgrade_cloud call yet
CloudIdle ==
    /\ cloud_requests = <<>>
    /\ cloud_pc = "idle"
    /\ cloud_args = NoArgs
    /\ cloud_locals = NoCloudLocals
    /\ confirmed = <<>>
    /\ cloud_result = NoResult

\* a local instance of one of the versions vs, its server in one of the run
\* states rs, and no invocation yet
LocalInit(vs, rs) ==
    /\ \E v \in vs :
          data_dir = [exists |-> TRUE, store |-> OnDisk(Records, v.major),
                      backup_json |-> 0, info |-> v,
                      cert |-> "orig_cert", key |-> "orig_key"]
    /\ backup_dir = NoDir
    /\ dump_path = NoDump
    /\ upgrade_marker = NoMarker
    /\ server \in rs
    /\ installed = {data_dir.info}
    /\ registered = data_dir.info
    /\ clock = 0
    /\ pc = [p \in Procs |-> "idle"]
    /\ outcome = [p \in Procs |-> "none"]
    /\ cmd = [p \in Procs |-> {}]
    /\ pkg = [p \in Procs |-> NoVer]
    /\ inst_ver = [p \in Procs |-> NoVer]
    /\ inst = [p \in Procs |-> NoVer]
    /\ path = [p \in Procs |-> "none"]
    /\ spawned = [p \in Procs |-> FALSE]
    /\ told = [p \in Procs |-> "nothing"]
    /\ in_project = [p \in Procs |-> FALSE]
    /\ marked = NoMarked
    /\ pre = [p \in Procs |-> NoSnapshot]

Init ==
    /\ LocalInit(Versions, {"stopped", "service"})
    /\ cloud_instance = NoCloudInstance
    /\ CloudIdle

\* the cloud's side: an instance of some version, or with a version text that
\* does not parse
InitCloud ==
    /\ LocalInit({Latest}, {"stopped"})
    /\ cloud_instance \in CloudInstances
    /\ CloudIdle

\* ---------------------------------------------------------------- helpers
Goto(p, l) == pc' = [pc EXCEPT ![p] = l] /\ UNCHANGED outcome

Finish(p, oc) ==
    /\ pc' = [pc EXCEPT ![p] = "done"]
    /\ outcome' = [outcome EXCEPT ![p] = oc]

Kept == <<pkg, inst_ver, path, pre, clock, told, cloudvars>>

LocalsButMarked == <<Kept, cmd, in_project>>

Locals == <<LocalsButMarked, marked>>

\* the call of upgrade_compatible(inst, pkg) or upgrade_incompatible(inst, pkg)
\* leaves the options behind
Call(p) ==
    /\ cmd' = [cmd EXCEPT ![p] = {}]
    /\ in_project' = [in_project EXCEPT ![p] = FALSE]

\* mutant: the comparison is strict (pkg_ver < inst_ver)
IsNoop_Strict(pkg_ver, cur, force) ==
    VerLe(pkg_ver, cur) /\ pkg_ver # cur /\ ~force

\* pkg_ver <= inst_ver && !cmd.force
IsNoop(pkg_ver, cur, force) == VerLe(pkg_ver, cur) /\ ~force

\* mutant: force alone, without a version-selecting option, forces the
\* incompatible path
ChoosePath_ForceAlone(pkg_ver, cur, o) ==
    IF is_compatible(pkg_ver, cur) /\ ~o.force /\ ~o.force_dump_restore
    THEN "compatible" ELSE "incompatible"

\* mutant: force_dump_restore is not looked at
ChoosePath_IgnoreDumpRestore(pkg_ver, cur, o) ==
    IF is_compatible(pkg_ver, cur) /\ ~(o.force /\ o.ver_option)
    THEN "compatible" ELSE "incompatible"

\* mutant: compatibility alone decides, also for a forced upgrade to an
\* explicitly selected version
ChoosePath_NoTieBreak(pkg_ver, cur, o) ==
    IF is_compatible(pkg_ver, cur) /\ ~o.force_dump_restore
    THEN "compatible" ELSE "incompatible"

\* the path selection of upgrade_local_cmd
ChoosePath(pkg_ver, cur, o) ==
    IF is_compatible(pkg_ver, cur) /\ ~(o.force /\ o.ver_option)
          /\ ~o.force_dump_restore
    THEN "compatible" ELSE "incompatible"

\* mutant: the Option of get_server_package is used without the check
Resolve_Unchecked(dir, o, k, proj) ==
    IF ~dir.exists \/ dir.info = NoVer THEN "read_failed"
    ELSE IF proj /\ ~o.force THEN "aborted"
    ELSE IF IsNoop(k, dir.info, o.force) THEN "noop"
    ELSE ChoosePath(k, dir.info, o)

\* what the resolution part of upgrade_local_cmd returns or continues with
Resolve(dir, o, k, proj) ==
    IF ~dir.exists \/ dir.info = NoVer THEN "read_failed"
    ELSE IF proj /\ ~o.force THEN "aborted"
    ELSE IF k = NoVer THEN "no_package"
    ELSE IF IsNoop(k, dir.info, o.force) THEN "noop"
    ELSE ChoosePath(k, dir.info, o)

\* upgrade_local_cmd up to the call of upgrade_compatible/upgrade_incompatible:
\* reads only.  k is the catalog's answer (NoVer: no package), proj whether a
\* project directory uses the instance.  Records of earlier, ended invocations
\* are dropped.
Begin(p, o, k, proj) ==
    LET r == Resolve(data_dir, o, k, proj)
        fresh(f, d) == [q \in Procs |-> IF q = p \/ ~InFlight(q) THEN d ELSE f[q]]
    IN
    /\ pc[p] \in Ended
    /\ clock < MaxInvocations
    /\ clock' = clock + 1
    /\ cmd' = [fresh(cmd, {}) EXCEPT ![p] = {o}]
    /\ pkg' = [fresh(pkg, NoVer) EXCEPT ![p] = k]
    /\ inst_ver' = [fresh(inst_ver, NoVer) EXCEPT ![p] = data_dir.info]
    /\ inst' = [fresh(inst, NoVer) EXCEPT ![p] = data_dir.info]
    /\ pre' = [fresh(pre, NoSnapshot) EXCEPT ![p] = Snapshot]
    /\ told' = [fresh(told, "nothing") EXCEPT ![p] = "nothing"]
    /\ in_project' = [fresh(in_project, FALSE) EXCEPT ![p] = proj]
    /\ UNCHANGED marked
    /\ spawned' = [fresh(spawned, FALSE) EXCEPT ![p] = FALSE]
    /\ path' = [fresh(path, "none") EXCEPT
                   ![p] = IF r \in {"compatible", "incompatible"} THEN r ELSE "none"]
    /\ pc' = [fresh(pc, "idle") EXCEPT
                   ![p] = CASE r = "compatible" -> "c_install"
                            [] r = "incompatible" -> "i_install"
                            [] OTHER -> "done"]
    /\ outcome' = [fresh(outcome, "none") EXCEPT
                   ![p] = IF r \in {"compatible", "incompatible"} THEN "none" ELSE r]
    /\ UNCHANGED fsvars
    /\ UNCHANGED cloudvars

\* one invocation at a time
upgrade_local_cmd(p) ==
    /\ \A q \in Procs : ~InFlight(q)
    /\ p = 1
    /\ \E o \in Options, k \in Versions \cup {NoVer}, proj \in BOOLEAN :
          Begin(p, o, k, proj)

\* an invocation that may overlap with another one: both ask for the latest
\* version and the catalog answers both with the same package
upgrade_local_cmd_overlapping(p) ==
    \E o \in ConcOptions : Begin(p, o, Latest, FALSE)

\* ----------------------------------------------------- upgrade_incompatible
\* install::package(&pkg)
Install(p) ==
    /\ pc[p] = "i_install"
    /\ \/ /\ installed' = installed \cup {pkg[p]}
          /\ Goto(p, "d_start")
       \/ /\ UNCHANGED installed
          /\ Finish(p, "install_failed")
    /\ Call(p)
    /\ UNCHANGED <<data_dir, backup_dir, dump_path, upgrade_marker, server,
                   registered, inst, spawned, marked>>
    /\ UNCHANGED Kept

\* a server process can serve connections only on an existing data directory
Reachable == server # "stopped" /\ data_dir.exists

\* background_for ends the process it spawned when its closure is over
EndSpawned(p) ==
    /\ server' = IF spawned[p] THEN "stopped" ELSE server
    /\ spawned' = [spawned EXCEPT ![p] = FALSE]

\* mutant: the error of do_start is passed on with ?
DoStart_Fatal(p) ==
    /\ pc[p] = "d_start"
    /\ \/ /\ server' = "service"
          /\ Goto(p, "d_remove")
       \/ /\ UNCHANGED server
          /\ Finish(p, "dump_failed")
    /\ UNCHANGED <<data_dir, backup_dir, dump_path, upgrade_marker, installed,
                   registered, inst, spawned>>
    /\ UNCHANGED Locals

\* dump_and_stop: control::do_start
DoStart(p) ==
    /\ pc[p] = "d_start"
    /\ \/ /\ server' = "service"
          /\ Goto(p, "d_remove")
       \/ /\ UNCHANGED server
          /\ Goto(p, "d_fallback")
    /\ UNCHANGED <<data_dir, backup_dir, dump_path, upgrade_marker, installed,
                   registered, inst, spawned>>
    /\ UNCHANGED Locals

\* dump_and_stop, do_start failed: ensure_runstate_dir, get_server_cmd and the
\* spawn of background_for.  A server process does not start on a data
\* directory that another one is running on.
SpawnForDump(p) ==
    /\ pc[p] = "d_fallback"
    /\ \/ /\ server = "stopped"
          /\ server' = "manual"
          /\ spawned' = [spawned EXCEPT ![p] = TRUE]
          /\ Goto(p, "d_remove")
       \/ /\ UNCHANGED <<server, spawned>>
          /\ Finish(p, "dump_failed")
    /\ UNCHANGED <<data_dir, backup_dir, dump_path, upgrade_marker, installed,
                   registered, inst>>
    /\ UNCHANGED Locals

\* mutant: the removal goes to paths.data_dir instead of the destination
RemoveOldDump_DataDir(p) ==
    /\ pc[p] = "d_remove"
    /\ data_dir' = NoDir
    /\ Goto(p, "d_dump")
    /\ UNCHANGED <<backup_dir, dump_path, upgrade_marker, server, installed,
                   registered, inst, spawned>>
    /\ UNCHANGED Locals

\* dump_instance: an old dump at the destination is removed first
RemoveOldDump(p) ==
    /\ pc[p] = "d_remove"
    /\ \/ /\ dump_path' = NoDump
          /\ UNCHANGED <<server, spawned>>
          /\ Goto(p, "d_dump")
       \/ /\ dump_path.exists
          /\ UNCHANGED dump_path
          /\ EndSpawned(p)
          /\ Finish(p, "dump_failed")
    /\ UNCHANGED <<data_dir, backup_dir, upgrade_marker, installed, registered,
                   inst>>
    /\ UNCHANGED Locals

\* dump_instance: Connection::connect and commands::dump_all.  A failed dump
\* leaves nothing (no connection) or an incomplete dump.
DumpAll(p) ==
    /\ pc[p] = "d_dump"
    /\ \/ /\ Reachable
          /\ dump_path' = dump_all(data_dir)
          /\ UNCHANGED <<server, spawned>>
          /\ Goto(p, "d_stop")
       \/ /\ dump_path' \in {dump_path, [exists |-> TRUE, recs |-> {}]}
          /\ EndSpawned(p)
          /\ Finish(p, "dump_failed")
    /\ UNCHANGED <<data_dir, backup_dir, upgrade_marker, installed, registered,
                   inst>>
    /\ UNCHANGED Locals

\* mutant: the result of do_stop is dropped
StopAfterDump_Ignored(p) ==
    /\ pc[p] = "d_stop"
    /\ \/ /\ spawned[p]
          /\ EndSpawned(p)
       \/ /\ ~spawned[p]
          /\ server' \in {"stopped", server}
          /\ UNCHANGED spawned
    /\ Goto(p, "b_check")
    /\ UNCHANGED <<data_dir, backup_dir, dump_path, upgrade_marker, installed,
                   registered, inst>>
    /\ UNCHANGED Locals

\* dump_and_stop: control::do_stop after a service-managed dump, the end of
\* background_for after a manually spawned one
StopAfterDump(p) ==
    /\ pc[p] = "d_stop"
    /\ \/ /\ spawned[p]
          /\ EndSpawned(p)
          /\ Goto(p, "b_check")
       \/ /\ ~spawned[p]
          /\ server' = "stopped"
          /\ UNCHANGED spawned
          /\ Goto(p, "b_check")
       \/ /\ ~spawned[p]
          /\ UNCHANGED <<server, spawned>>
          /\ Finish(p, "dump_failed")
    /\ UNCHANGED <<data_dir, backup_dir, dump_path, upgrade_marker, installed,
                   registered, inst>>
    /\ UNCHANGED Locals

\* backup: if paths.upgrade_marker.exists() { bail!(...) }
BackupCheck(p) ==
    /\ pc[p] = "b_check"
    /\ IF upgrade_marker.exists
       THEN Finish(p, "already_in_progress")
       ELSE Goto(p, "b_marker")
    /\ UNCHANGED fsvars
    /\ UNCHANGED <<inst, spawned>>
    /\ UNCHANGED Locals

\* backup: write_json(&paths.upgrade_marker, UpgradeMeta {..})
WriteMarker(p) ==
    /\ pc[p] = "b_marker"
    /\ \/ /\ upgrade_marker' = [exists |-> TRUE, source |-> inst[p],
                                target |-> pkg[p], pid |-> p]
          /\ marked' = [data |-> data_dir, renamed |-> FALSE]
          /\ Goto(p, "b_meta")
       \/ /\ UNCHANGED <<upgrade_marker, marked>>
          /\ Finish(p, "backup_failed")
    /\ UNCHANGED <<data_dir, backup_dir, dump_path, server, installed,
                   registered, inst, spawned>>
    /\ UNCHANGED LocalsButMarked

\* backup: write_json(&paths.data_dir.join("backup.json"), BackupMeta {..})
WriteBackupMeta(p) ==
    /\ pc[p] = "b_meta"
    /\ \/ /\ data_dir.exists
          /\ data_dir' = [data_dir EXCEPT !.backup_json = clock]
          /\ Goto(p, "b_rmstale")
       \/ /\ UNCHANGED data_dir
          /\ Finish(p, "backup_failed")
    /\ UNCHANGED <<backup_dir, dump_path, upgrade_marker, server, installed,
                   registered, inst, spawned>>
    /\ UNCHANGED Locals

\* mutant: a stale backup_dir is left where it is
RemoveStaleBackup_Skipped(p) ==
    /\ pc[p] = "b_rmstale"
    /\ Goto(p, "b_rename")
    /\ UNCHANGED <<data_dir, backup_dir, dump_path, upgrade_marker, server,
                   installed, registered, inst, spawned>>
    /\ UNCHANGED Locals

\* mutant: the removal goes to paths.data_dir
RemoveStaleBackup_DataDir(p) ==
    /\ pc[p] = "b_rmstale"
    /\ \/ /\ data_dir' = NoDir
          /\ Goto(p, "b_rename")
       \/ /\ UNCHANGED data_dir
          /\ Finish(p, "backup_failed")
    /\ UNCHANGED <<backup_dir, dump_path, upgrade_marker, server, installed,
                   registered, inst, spawned>>
    /\ UNCHANGED Locals

\* backup: if paths.backup_dir.exists() { remove_dir_all(&paths.backup_dir)? }
RemoveStaleBackup(p) ==
    /\ pc[p] = "b_rmstale"
    /\ \/ /\ backup_dir' = NoDir
          /\ Goto(p, "b_rename")
       \/ /\ backup_dir.exists
          /\ backup_dir' \in {backup_dir, [backup_dir EXCEPT !.store = {}]}
          /\ Finish(p, "backup_failed")
    /\ UNCHANGED <<data_dir, dump_path, upgrade_marker, server, installed,
                   registered, inst, spawned>>
    /\ UNCHANGED Locals

\* backup: fs_err::rename(&paths.data_dir, &paths.backup_dir), and on return
\* inst.installation = Some(install)
RenameToBackup(p) ==
    /\ pc[p] = "b_rename"
    /\ \/ /\ data_dir.exists /\ ~backup_dir.exists
          /\ backup_dir' = data_dir
          /\ data_dir' = NoDir
          /\ inst' = [inst EXCEPT ![p] = pkg[p]]
          /\ marked' = [marked EXCEPT !.renamed = TRUE]
          /\ Goto(p, "r_mkdir")
       \/ /\ UNCHANGED <<data_dir, backup_dir, inst, marked>>
          /\ Finish(p, "backup_failed")
    /\ UNCHANGED <<dump_path, upgrade_marker, server, installed, registered,
                   spawned>>
    /\ UNCHANGED LocalsButMarked

\* mutant: the error of reinit_and_restore is passed on as it is
NeedsRevert_Generic(p) ==
    /\ UNCHANGED told
    /\ Finish(p, "restore_failed")

\* upgrade_incompatible: a failure of reinit_and_restore is printed with the
\* command that undoes the upgrade and becomes ExitCode(NEEDS_REVERT)
NeedsRevert(p) ==
    /\ told' = [told EXCEPT ![p] = "edgedb instance revert"]
    /\ Finish(p, "needs_revert")

ReinitFrame == <<cmd, pkg, inst_ver, path, pre, clock, inst, in_project, marked,
                cloudvars>>

\* reinit_and_restore: fs::create_dir_all(&paths.data_dir)
CreateDataDir(p) ==
    /\ pc[p] = "r_mkdir"
    /\ \/ /\ data_dir' = IF data_dir.exists THEN data_dir ELSE EmptyDir
          /\ UNCHANGED told
          /\ Goto(p, "r_spawn")
       \/ /\ UNCHANGED data_dir
          /\ NeedsRevert(p)
    /\ UNCHANGED <<backup_dir, dump_path, upgrade_marker, server, installed,
                   registered, spawned>>
    /\ UNCHANGED ReinitFrame

\* reinit_and_restore: ensure_runstate_dir, get_server_cmd, self_signed_arg and
\* the spawn of background_for: the new server starts on the new data
\* directory and generates a self-signed certificate and key there
SpawnForRestore(p) ==
    /\ pc[p] = "r_spawn"
    /\ \/ /\ data_dir.exists
          /\ data_dir' = [data_dir EXCEPT !.cert = "self_signed_cert",
                                          !.key = "self_signed_key"]
          /\ server' = "manual"
          /\ spawned' = [spawned EXCEPT ![p] = TRUE]
          /\ UNCHANGED told
          /\ Goto(p, "r_restore")
       \/ /\ UNCHANGED <<data_dir, server, spawned>>
          /\ NeedsRevert(p)
    /\ UNCHANGED <<backup_dir, dump_path, upgrade_marker, installed, registered>>
    /\ UNCHANGED ReinitFrame

\* reinit_and_restore: restore_instance inside background_for.  A failed
\* restore leaves the new data directory without, or with a part of, the
\* dump's records.
RestoreAll(p) ==
    /\ pc[p] = "r_restore"
    /\ \/ /\ Reachable /\ dump_path.exists
          /\ data_dir' = [data_dir EXCEPT
                             !.store = restore_all(dump_path, inst[p].major)]
          /\ UNCHANGED told
          /\ Goto(p, "r_meta")
       \/ /\ \E part \in SUBSET restore_all(dump_path, inst[p].major) :
                /\ part # restore_all(dump_path, inst[p].major) \/ part = {}
                /\ data_dir' = IF data_dir.exists
                               THEN [data_dir EXCEPT !.store = part]
                               ELSE data_dir
          /\ NeedsRevert(p)
    /\ EndSpawned(p)
    /\ UNCHANGED <<backup_dir, dump_path, upgrade_marker, installed, registered>>
    /\ UNCHANGED ReinitFrame

\* mutant: the metadata is written into paths.backup_dir
WriteInstanceInfo_InBackup(p) ==
    /\ pc[p] = "r_meta"
    /\ \/ /\ backup_dir.exists
          /\ backup_dir' = [backup_dir EXCEPT !.info = inst[p]]
          /\ UNCHANGED told
          /\ Goto(p, "r_cert")
       \/ /\ UNCHANGED backup_dir
          /\ NeedsRevert(p)
    /\ UNCHANGED <<data_dir, dump_path, upgrade_marker, server, installed,
                   registered, spawned>>
    /\ UNCHANGED ReinitFrame

\* reinit_and_restore: write_json(data_dir/instance_info.json, &inst)
WriteInstanceInfo(p) ==
    /\ pc[p] = "r_meta"
    /\ \/ /\ data_dir.exists
          /\ data_dir' = [data_dir EXCEPT !.info = inst[p]]
          /\ UNCHANGED told
          /\ Goto(p, "r_cert")
       \/ /\ UNCHANGED data_dir
          /\ NeedsRevert(p)
    /\ UNCHANGED <<backup_dir, dump_path, upgrade_marker, server, installed,
                   registered, spawned>>
    /\ UNCHANGED ReinitFrame

\* mutant: the certificate is not copied
CopyCert_Skipped(p) ==
    /\ pc[p] = "r_cert"
    /\ UNCHANGED <<data_dir, told>>
    /\ Goto(p, "r_key")
    /\ UNCHANGED <<backup_dir, dump_path, upgrade_marker, server, installed,
                   registered, spawned>>
    /\ UNCHANGED ReinitFrame

\* mutant: source and destination of the copy are swapped
CopyCert_Swapped(p) ==
    /\ pc[p] = "r_cert"
    /\ \/ /\ data_dir.exists /\ backup_dir.exists /\ data_dir.cert # "none"
          /\ backup_dir' = [backup_dir EXCEPT !.cert = data_dir.cert]
          /\ UNCHANGED told
          /\ Goto(p, "r_key")
       \/ /\ UNCHANGED backup_dir
          /\ NeedsRevert(p)
    /\ UNCHANGED <<data_dir, dump_path, upgrade_marker, server, installed,
                   registered, spawned>>
    /\ UNCHANGED ReinitFrame

\* reinit_and_restore: fs::copy(backup_dir/edbtlscert.pem, data_dir/edbtlscert.pem)
CopyCert(p) ==
    /\ pc[p] = "r_cert"
    /\ \/ /\ data_dir.exists /\ backup_dir.exists /\ backup_dir.cert # "none"
          /\ data_dir' = [data_dir EXCEPT !.cert = backup_dir.cert]
          /\ UNCHANGED told
          /\ Goto(p, "r_key")
       \/ /\ UNCHANGED data_dir
          /\ NeedsRevert(p)
    /\ UNCHANGED <<backup_dir, dump_path, upgrade_marker, server, installed,
                   registered, spawned>>
    /\ UNCHANGED ReinitFrame

\* mutant: the run goes on with create_service, the removal of the marker is
\* left out
CopyKey_ThenService(p) ==
    /\ pc[p] = "r_key"
    /\ \/ /\ data_dir.exists /\ backup_dir.exists /\ backup_dir.key # "none"
          /\ data_dir' = [data_dir EXCEPT !.key = backup_dir.key]
          /\ UNCHANGED told
          /\ Goto(p, "s_service")
       \/ /\ UNCHANGED data_dir
          /\ NeedsRevert(p)
    /\ UNCHANGED <<backup_dir, dump_path, upgrade_marker, server, installed,
                   registered, spawned>>
    /\ UNCHANGED ReinitFrame

\* mutant: the result of the copy is dropped
CopyKey_Ignored(p) ==
    /\ pc[p] = "r_key"
    /\ \/ /\ data_dir.exists /\ backup_dir.exists /\ backup_dir.key # "none"
          /\ data_dir' = [data_dir EXCEPT !.key = backup_dir.key]
       \/ UNCHANGED data_dir
    /\ UNCHANGED told
    /\ Goto(p, "m_remove")
    /\ UNCHANGED <<backup_dir, dump_path, upgrade_marker, server, installed,
                   registered, spawned>>
    /\ UNCHANGED ReinitFrame

\* reinit_and_restore: fs::copy(backup_dir/edbprivkey.pem, data_dir/edbprivkey.pem)
CopyKey(p) ==
    /\ pc[p] = "r_key"
    /\ \/ /\ data_dir.exists /\ backup_dir.exists /\ backup_dir.key # "none"
          /\ data_dir' = [data_dir EXCEPT !.key = backup_dir.key]
          /\ UNCHANGED told
          /\ Goto(p, "m_remove")
       \/ /\ UNCHANGED data_dir
          /\ NeedsRevert(p)
    /\ UNCHANGED <<backup_dir, dump_path, upgrade_marker, server, installed,
                   registered, spawned>>
    /\ UNCHANGED ReinitFrame

\* mutant: a failed removal of the marker ends with NEEDS_REVERT too
RemoveMarker_NeedsRevert(p) ==
    /\ pc[p] = "m_remove"
    /\ \/ /\ upgrade_marker.exists
          /\ upgrade_marker' = NoMarker
          /\ marked' = NoMarked
          /\ Goto(p, "s_service")
       \/ /\ UNCHANGED <<upgrade_marker, marked>>
          /\ Finish(p, "needs_revert")
    /\ UNCHANGED <<data_dir, backup_dir, dump_path, server, installed,
                   registered, inst, spawned>>
    /\ UNCHANGED LocalsButMarked

\* mutant: the backup is removed together with the marker
RemoveMarker_AndBackup(p) ==
    /\ pc[p] = "m_remove"
    /\ \/ /\ upgrade_marker.exists
          /\ upgrade_marker' = NoMarker
          /\ backup_dir' = NoDir
          /\ marked' = NoMarked
          /\ Goto(p, "s_service")
       \/ /\ UNCHANGED <<upgrade_marker, backup_dir, marked>>
          /\ Finish(p, "remove_marker_failed")
    /\ UNCHANGED <<data_dir, dump_path, server, installed, registered, inst,
                   spawned>>
    /\ UNCHANGED LocalsButMarked

\* upgrade_incompatible: fs::remove_file(&paths.upgrade_marker)
RemoveMarker(p) ==
    /\ pc[p] = "m_remove"
    /\ \/ /\ upgrade_marker.exists
          /\ upgrade_marker' = NoMarker
          /\ marked' = NoMarked
          /\ Goto(p, "s_service")
       \/ /\ UNCHANGED <<upgrade_marker, marked>>
          /\ Finish(p, "remove_marker_failed")
    /\ UNCHANGED <<data_dir, backup_dir, dump_path, server, installed,
                   registered, inst, spawned>>
    /\ UNCHANGED LocalsButMarked

\* mutant: the error of create_service is passed on with ?
create_service_Propagated(p, next) ==
    /\ \/ /\ registered' = inst[p]
          /\ Goto(p, next)
       \/ /\ UNCHANGED registered
          /\ Finish(p, "service_failed")
    /\ UNCHANGED <<data_dir, backup_dir, dump_path, upgrade_marker, server,
                   installed, inst, spawned>>
    /\ UNCHANGED Locals

\* create::create_service(&inst).map_err(log::warn).ok(): the result is dropped
create_service(p, next) ==
    /\ registered' \in {inst[p], registered}
    /\ Goto(p, next)
    /\ UNCHANGED <<data_dir, backup_dir, dump_path, upgrade_marker, server,
                   installed, inst, spawned>>
    /\ UNCHANGED Locals

\* control::do_restart(&inst)?, then Ok(())
do_restart(p) ==
    /\ \/ /\ server' = "service"
          /\ Finish(p, "ok")
       \/ /\ server' \in {server, "stopped"}
          /\ Finish(p, "restart_failed")
    /\ UNCHANGED <<data_dir, backup_dir, dump_path, upgrade_marker, installed,
                   registered, inst, spawned>>
    /\ UNCHANGED Locals

\* upgrade_incompatible: create_service
RegisterService(p) == pc[p] = "s_service" /\ create_service(p, "s_restart")

\* upgrade_incompatible: do_restart
Restart(p) == pc[p] = "s_restart" /\ do_restart(p)

\* ------------------------------------------------------- upgrade_compatible
\* mutant: after the install the run goes on in dump_and_stop
CompatInstall_FallsThrough(p) ==
    /\ pc[p] = "c_install"
    /\ \/ /\ installed' = installed \cup {pkg[p]}
          /\ inst' = [inst EXCEPT ![p] = pkg[p]]
          /\ Goto(p, "d_start")
       \/ /\ UNCHANGED <<installed, inst>>
          /\ Finish(p, "install_failed")
    /\ Call(p)
    /\ UNCHANGED <<data_dir, backup_dir, dump_path, upgrade_marker, server,
                   registered, spawned, marked>>
    /\ UNCHANGED Kept

\* install::package(&pkg) and inst.installation = Some(install)
CompatInstall(p) ==
    /\ pc[p] = "c_install"
    /\ \/ /\ installed' = installed \cup {pkg[p]}
          /\ inst' = [inst EXCEPT ![p] = pkg[p]]
          /\ Goto(p, "c_meta")
       \/ /\ UNCHANGED <<installed, inst>>
          /\ Finish(p, "install_failed")
    /\ Call(p)
    /\ UNCHANGED <<data_dir, backup_dir, dump_path, upgrade_marker, server,
                   registered, spawned, marked>>
    /\ UNCHANGED Kept

\* write_json(inst.data_dir()/instance_info.json, &inst)
CompatWriteInstanceInfo(p) ==
    /\ pc[p] = "c_meta"
    /\ \/ /\ data_dir.exists
          /\ data_dir' = [data_dir EXCEPT !.info = inst[p]]
          /\ Goto(p, "c_service")
       \/ /\ UNCHANGED data_dir
          /\ Finish(p, "write_failed")
    /\ UNCHANGED <<backup_dir, dump_path, upgrade_marker, server, installed,
                   registered, inst, spawned>>
    /\ UNCHANGED Locals

\* upgrade_compatible: create_service
CompatRegisterService(p) == pc[p] = "c_service" /\ create_service(p, "c_restart")

\* upgrade_compatible: do_restart
CompatRestart(p) == pc[p] = "c_restart" /\ do_restart(p)

\* ------------------------------------------------------------ upgrade_cloud
localvars == <<fsvars, procvars, marked>>

CloudReturn(r) ==
    /\ cloud_pc' = "done"
    /\ cloud_result' = r

CloudErr(e) == CloudReturn([NoResult EXCEPT !.action = "Err", !.error = e])

\* Ok(UpgradeResult { action, prior_version: inst_ver,
\*                    requested_version: target_ver, available_upgrade: None })
UpgradeResult(a, prior, requested) ==
    [action |-> a, prior_version |-> prior, requested_version |-> requested,
     error |-> ""]

\* the call upgrade_cloud(org, name, to_version, client, force, confirm)
upgrade_cloud ==
    /\ cloud_pc \in {"idle", "done"}
    /\ clock < MaxInvocations
    /\ clock' = clock + 1
    /\ \E o \in Orgs, n \in Names, f \in BOOLEAN :
          cloud_args' = [org |-> o, name |-> n, force |-> f]
    /\ cloud_locals' = [NoCloudLocals EXCEPT !.sent_before = Len(cloud_requests)]
    /\ confirmed' = <<>>
    /\ cloud_result' = NoResult
    /\ cloud_pc' = "find"
    /\ UNCHANGED <<cloud_instance, cloud_requests>>
    /\ UNCHANGED localvars

\* cloud::ops::find_cloud_instance_by_name(name, org, client)?
\*     .ok_or_else(|| anyhow!("instance not found"))?
FindInstance ==
    /\ cloud_pc = "find"
    /\ \/ /\ cloud_instance.exists
          /\ cloud_instance.org = cloud_args.org
          /\ cloud_instance.name = cloud_args.name
          /\ cloud_locals' = [cloud_locals EXCEPT !.inst = cloud_instance]
          /\ cloud_pc' = "get_version"
          /\ UNCHANGED cloud_result
       \/ /\ ~(/\ cloud_instance.exists
               /\ cloud_instance.org = cloud_args.org
               /\ cloud_instance.name = cloud_args.name)
          /\ CloudErr("instance not found")
          /\ UNCHANGED cloud_locals
       \/ /\ CloudErr("lookup failed")
          /\ UNCHANGED cloud_locals
    /\ UNCHANGED <<cloud_instance, cloud_requests, cloud_args, confirmed, clock>>
    /\ UNCHANGED localvars

\* cloud::versions::get_version(to_version, client)?
GetVersion ==
    /\ cloud_pc = "get_version"
    /\ \/ /\ \E k \in Versions :
                cloud_locals' = [cloud_locals EXCEPT !.target_ver = k]
          /\ cloud_pc' = "decide"
          /\ UNCHANGED cloud_result
       \/ /\ CloudErr("no version")
          /\ UNCHANGED cloud_locals
    /\ UNCHANGED <<cloud_instance, cloud_requests, cloud_args, confirmed, clock>>
    /\ UNCHANGED localvars

\* mutant: the comparison is strict (target_ver < inst_ver)
CloudIsNoop_Strict(target, cur, force) ==
    VerLe(target, cur) /\ target # cur /\ ~force

\* target_ver <= inst_ver && !force
CloudIsNoop(target, cur, force) == VerLe(target, cur) /\ ~force

\* ver::Specific::from_str(&inst.version)? and the first branch of the if
Decide ==
    LET cur == from_str(cloud_locals.inst.version)
        target == cloud_locals.target_ver
    IN
    /\ cloud_pc = "decide"
    /\ IF cur = NoVer
       THEN /\ CloudErr("bad version")
            /\ UNCHANGED cloud_locals
       ELSE /\ cloud_locals' = [cloud_locals EXCEPT !.inst_ver = cur]
            /\ IF CloudIsNoop(target, cur, cloud_args.force)
               THEN CloudReturn(UpgradeResult("None", cur, target))
               ELSE cloud_pc' = "confirm" /\ UNCHANGED cloud_result
    /\ UNCHANGED <<cloud_instance, cloud_requests, cloud_args, confirmed, clock>>
    /\ UNCHANGED localvars

\* mutant: every answer but an error counts as a yes
Accepted_Any(ans) == ans # "error"

\* the value of confirm(&target_ver)? that lets the upgrade go on
Accepted(ans) == ans = "yes"

\* else if !confirm(&target_ver)? { Ok(.. Cancelled ..) }
Confirm ==
    /\ cloud_pc = "confirm"
    /\ \E ans \in {"yes", "no", "error"} :
          /\ confirmed' = Append(confirmed, ans)
          /\ IF ans = "error" THEN CloudErr("confirm failed")
             ELSE IF Accepted(ans) THEN cloud_pc' = "request" /\ UNCHANGED cloud_result
             ELSE CloudReturn(UpgradeResult("Cancelled", cloud_locals.inst_ver,
                                            cloud_locals.target_ver))
    /\ UNCHANGED <<cloud_instance, cloud_requests, cloud_args, cloud_locals, clock>>
    /\ UNCHANGED localvars

\* mutant: the request is built without the force flag
CloudInstanceUpgrade_Unforced(org, name, version, force) ==
    [org |-> org, name |-> name, version |-> to_string(version), force |-> FALSE]

\* cloud::ops::CloudInstanceUpgrade { org, name, version: target_ver.to_string(),
\*                                   force }
CloudInstanceUpgrade(org, name, version, force) ==
    [org |-> org, name |-> name, version |-> to_string(version), force |-> force]

\* the cloud's instance after it has carried out an upgrade request
Carried(i, req) ==
    IF i.exists /\ i.org = req.org /\ i.name = req.name
    THEN [i EXCEPT !.version = req.version] ELSE i

\* mutant: a failed request is sent once more
SendRequest_Retried ==
    LET request == CloudInstanceUpgrade(cloud_args.org, cloud_args.name,
                                        cloud_locals.target_ver, cloud_args.force)
    IN
    /\ cloud_pc = "request"
    /\ \/ /\ cloud_requests' = Append(cloud_requests, request)
          /\ cloud_instance' = Carried(cloud_instance, request)
          /\ CloudReturn(UpgradeResult("Upgraded", cloud_locals.inst_ver,
                                       cloud_locals.target_ver))
       \/ /\ cloud_requests' = Append(Append(cloud_requests, request), request)
          /\ cloud_instance' \in {cloud_instance, Carried(cloud_instance, request)}
          /\ CloudReturn(UpgradeResult("Upgraded", cloud_locals.inst_ver,
                                       cloud_locals.target_ver))
    /\ UNCHANGED <<cloud_args, cloud_locals, confirmed, clock>>
    /\ UNCHANGED localvars

\* cloud::ops::upgrade_cloud_instance(client, &request)? and the Upgraded result
SendRequest ==
    LET request == CloudInstanceUpgrade(cloud_args.org, cloud_args.name,
                                        cloud_locals.target_ver, cloud_args.force)
    IN
    /\ cloud_pc = "request"
    /\ cloud_requests' = Append(cloud_requests, request)
    /\ \/ /\ cloud_instance' = Carried(cloud_instance, request)
          /\ CloudReturn(UpgradeResult("Upgraded", cloud_locals.inst_ver,
                                       cloud_locals.target_ver))
       \/ /\ UNCHANGED cloud_instance
          /\ CloudErr("request failed")
    /\ UNCHANGED <<cloud_args, cloud_locals, confirmed, clock>>
    /\ UNCHANGED localvars

\* ------------------------------------------------------------- environment
\* the CLI process is killed between two steps
Crash(p) ==
    /\ InFlight(p)
    /\ pc' = [pc EXCEPT ![p] = "crashed"]
    /\ outcome' = [outcome EXCEPT ![p] = "crashed"]
    /\ spawned' = [spawned EXCEPT ![p] = FALSE]
    /\ UNCHANGED fsvars
    /\ UNCHANGED <<inst>>
    /\ UNCHANGED Locals

\* the revert procedure on a given state of the two directories: delete
\* data_dir, rename backup_dir back to data_dir
RevertDir(dd, bd) == bd

\* the operator runs the revert procedure: delete data_dir, rename backup_dir
\* back to data_dir, delete the marker
Revert ==
    /\ upgrade_marker.exists
    /\ \A q \in Procs : ~InFlight(q)
    /\ data_dir' = RevertDir(data_dir, backup_dir)
    /\ backup_dir' = NoDir
    /\ upgrade_marker' = IF backup_dir.exists THEN NoMarker ELSE upgrade_marker
    /\ pc' = [q \in Procs |-> "idle"]
    /\ outcome' = [q \in Procs |-> "none"]
    /\ cmd' = [q \in Procs |-> {}]
    /\ pkg' = [q \in Procs |-> NoVer]
    /\ inst_ver' = [q \in Procs |-> NoVer]
    /\ inst' = [q \in Procs |-> NoVer]
    /\ path' = [q \in Procs |-> "none"]
    /\ spawned' = [q \in Procs |-> FALSE]
    /\ told' = [q \in Procs |-> "nothing"]
    /\ in_project' = [q \in Procs |-> FALSE]
    /\ marked' = IF backup_dir.exists THEN NoMarked ELSE marked
    /\ pre' = [q \in Procs |-> NoSnapshot]
    /\ UNCHANGED <<dump_path, server, installed, registered, clock>>
    /\ UNCHANGED cloudvars

\* ----------------------------------------------------------- specifications
Step(p) ==
    \/ Install(p) \/ DoStart(p) \/ SpawnForDump(p) \/ RemoveOldDump(p)
    \/ DumpAll(p) \/ StopAfterDump(p)
    \/ BackupCheck(p) \/ WriteMarker(p) \/ WriteBackupMeta(p)
    \/ RemoveStaleBackup(p) \/ RenameToBackup(p)
    \/ CreateDataDir(p) \/ SpawnForRestore(p) \/ RestoreAll(p)
    \/ WriteInstanceInfo(p) \/ CopyCert(p) \/ CopyKey(p)
    \/ RemoveMarker(p) \/ RegisterService(p) \/ Restart(p)
    \/ CompatInstall(p) \/ CompatWriteInstanceInfo(p)
    \/ CompatRegisterService(p) \/ CompatRestart(p)

\* invocations one after the other, crashes and reverts by the operator
Next ==
    \/ \E p \in Procs : upgrade_local_cmd(p)
    \/ \E p \in Procs : Step(p)
    \/ \E p \in Procs : Crash(p)
    \/ Revert

Spec == Init /\ [][Next]_vars

\* two invocations for the same instance that overlap in time
NextOverlap ==
    \/ \E p \in Procs : upgrade_local_cmd_overlapping(p)
    \/ \E p \in Procs : Step(p)

SpecOverlap == Init /\ [][NextOverlap]_vars

\* upgrades of a cloud instance, one call after the other
NextCloud ==
    \/ upgrade_cloud
    \/ FindInstance \/ GetVersion \/ Decide \/ Confirm \/ SendRequest

SpecCloud == InitCloud /\ [][NextCloud]_vars

\* ------------------------------------------------------------------ claims
\* two directory trees that differ at most in the backup.json file
SameButBackupJson(a, b) ==
    [a EXCEPT !.backup_json = 0] = [b EXCEPT !.backup_json = 0]

\* the logical records stored in a data directory
Logical(dir) == {x[2] : x \in dir.store}

DumpPhase == {"d_start", "d_fallback", "d_remove", "d_dump", "d_stop"}

BackupPhase == {"b_marker", "b_meta", "b_rmstale", "b_rename"}

ReinitPhase == {"r_mkdir", "r_spawn", "r_restore", "r_meta", "r_cert", "r_key"}

\* C1: an incompatible upgrade started while upgrade_marker exists changes
\* nothing on its way to the refusal: no step of it changes data_dir,
\* backup_dir, dump_path, upgrade_marker or the server's run state, and
\* backup's check ends it with "Upgrade is already in progress".
C1_RefusedWithoutMutation ==
    [][\A p \in Procs :
          (InFlight(p) /\ path[p] = "incompatible" /\ pre[p].upgrade_marker.exists)
          => /\ data_dir' = data_dir
             /\ backup_dir' = backup_dir
             /\ dump_path' = dump_path
             /\ upgrade_marker' = upgrade_marker
             /\ server' = server
             /\ (pc[p] = "b_check" /\ pc'[p] = "done"
                    => outcome'[p] = "already_in_progress")]_vars

\* C2 as stated: after a failure of reinit_and_restore the marker and
\* backup_dir are present and the revert procedure yields a data_dir identical
\* to the one before the upgrade.
C2_RevertIdenticalAfterRestoreFailure ==
    \A p \in Procs :
        outcome[p] = "needs_revert"
        => /\ upgrade_marker.exists
           /\ backup_dir.exists
           /\ RevertDir(data_dir, backup_dir) = pre[p].data_dir

\* C2 amended: after a failure of reinit_and_restore the marker and backup_dir
\* are present and the revert procedure yields a data_dir identical to the one
\* before the upgrade except for the backup.json file that backup wrote into it.
C2_RevertAfterRestoreFailure ==
    \A p \in Procs :
        outcome[p] = "needs_revert"
        => /\ upgrade_marker.exists
           /\ backup_dir.exists
           /\ SameButBackupJson(RevertDir(data_dir, backup_dir), pre[p].data_dir)

C2_Witness ==
    \E p \in Procs :
        /\ outcome[p] = "needs_revert"
        /\ data_dir.exists
        /\ Logical(data_dir) # Logical(backup_dir)

\* C3: while an incompatible upgrade is in dump_and_stop, and after
\* dump_and_stop has failed, upgrade_marker, data_dir and backup_dir are the
\* ones the invocation found: no marker was written, nothing was renamed.
C3_DumpFailureLeavesDirs ==
    \A p \in Procs :
        (pc[p] \in DumpPhase \/ outcome[p] = "dump_failed")
        => /\ upgrade_marker = pre[p].upgrade_marker
           /\ data_dir = pre[p].data_dir
           /\ backup_dir = pre[p].backup_dir

C3_Witness ==
    \E p \in Procs :
        /\ outcome[p] = "dump_failed"
        /\ dump_path # pre[p].dump_path
        /\ data_dir.exists

\* C4 as stated: in every state in which upgrade_marker exists the revert
\* procedure yields the data_dir of before the upgrade that wrote the marker.
C4_RevertRestoresWheneverMarked ==
    upgrade_marker.exists => RevertDir(data_dir, backup_dir) = marked.data

\* C4 amended: in every state in which upgrade_marker exists and the upgrade
\* that wrote it has renamed data_dir to backup_dir, the revert procedure
\* yields the data_dir of before that upgrade, except for the backup.json file
\* that backup wrote into it.
C4_RevertRestoresAfterRename ==
    (upgrade_marker.exists /\ marked.renamed)
    => /\ backup_dir.exists
       /\ SameButBackupJson(RevertDir(data_dir, backup_dir), marked.data)

C4_Witness ==
    /\ upgrade_marker.exists
    /\ marked.renamed
    /\ data_dir.exists
    /\ data_dir.info # backup_dir.info
    /\ \E p \in Procs : pc[p] = "crashed"

\* C5: of two overlapping invocations at most one is past the marker check
\* of backup at any time.
C5_OnePastMarkerCheck ==
    Cardinality({p \in Procs : pc[p] \in BackupPhase \cup ReinitPhase}) <= 1

\* C6: when upgrade_incompatible returns Ok, upgrade_marker is absent,
\* data_dir holds, in the new server's format, the records that were dumped
\* from the old data directory, and backup_dir is the old data directory.
C6_SuccessfulIncompatibleUpgrade ==
    \A p \in Procs :
        (outcome[p] = "ok" /\ path[p] = "incompatible")
        => /\ ~upgrade_marker.exists
           /\ data_dir.exists
           /\ dump_path = dump_all(pre[p].data_dir)
           /\ data_dir.store = restore_all(dump_path, pkg[p].major)
           /\ Logical(data_dir) = Logical(pre[p].data_dir)
           /\ backup_dir.exists
           /\ SameButBackupJson(backup_dir, pre[p].data_dir)

C6_Witness ==
    \E p \in Procs :
        /\ outcome[p] = "ok"
        /\ path[p] = "incompatible"
        /\ pkg[p].major # inst_ver[p].major
        /\ data_dir.store # backup_dir.store

\* C7: after a failure inside backup the original data directory is in place
\* and nothing the failed attempt left behind blocks a new attempt: there is
\* no upgrade_marker.
C7_BackupFailureAllowsRetry ==
    \A p \in Procs :
        outcome[p] = "backup_failed"
        => /\ data_dir.exists
           /\ SameButBackupJson(data_dir, pre[p].data_dir)
           /\ ~upgrade_marker.exists

\* C8: a step of reinit_and_restore that fails ends the invocation with the
\* needs-revert status and the revert command printed, and rolls nothing
\* back: the marker and backup_dir stay as they are, data_dir is not deleted
\* and the server is not started by the service manager.
C8_NoRollbackOnRestoreFailure ==
    [][\A p \in Procs :
          (pc[p] \in ReinitPhase /\ pc'[p] = "done")
          => /\ outcome'[p] = "needs_revert"
             /\ told'[p] = "edgedb instance revert"
             /\ upgrade_marker.exists /\ upgrade_marker' = upgrade_marker
             /\ backup_dir.exists /\ backup_dir' = backup_dir
             /\ (data_dir.exists => data_dir'.exists)
             /\ server' # "service"]_vars

C8_Witness ==
    \E p \in Procs :
        /\ outcome[p] = "needs_revert"
        /\ told[p] = "edgedb instance revert"
        /\ data_dir.exists
        /\ data_dir.info = NoVer

\* the request of an invocation asks for a version that is not newer than the
\* instance's, without force
NotNewer(p) ==
    /\ pkg[p] # NoVer
    /\ inst_ver[p] # NoVer
    /\ VerLe(pkg[p], inst_ver[p])
    /\ \E o \in cmd[p] : ~o.force

\* C9 as stated: a request for a version not newer than the instance's,
\* without force, returns the no-op result and changes nothing.
C9_NotNewerIsNoop ==
    \A p \in Procs :
        NotNewer(p)
        => pc[p] = "done" /\ outcome[p] = "noop" /\ Snapshot = pre[p]

\* C9 amended: a request for a version not newer than the instance's, without
\* force, changes nothing; it returns the no-op result when no project
\* directory uses the instance, and the "Upgrade aborted" error of
\* check_project when one does.
C9_NotNewerChangesNothing ==
    \A p \in Procs :
        NotNewer(p)
        => /\ pc[p] = "done"
           /\ Snapshot = pre[p]
           /\ (~in_project[p] => outcome[p] = "noop")
           /\ (in_project[p] => outcome[p] = "aborted")

C9_Witness ==
    \E p \in Procs :
        /\ NotNewer(p)
        /\ outcome[p] = "noop"
        /\ pkg[p] = inst_ver[p]
        /\ clock = MaxInvocations

\* C10 as stated: an upgrade that is not a no-op, to a compatible version and
\* without force_dump_restore, takes the compatible path.
C10_CompatibleTakesCompatiblePath ==
    \A p \in Procs :
        \A o \in cmd[p] :
            (path[p] # "none" /\ is_compatible(pkg[p], inst_ver[p])
                /\ ~o.force_dump_restore)
            => path[p] = "compatible"

\* C10 amended: an upgrade that is not a no-op, to a compatible version,
\* without force_dump_restore and without force together with a
\* version-selecting option, takes the compatible path.
C10_CompatibleUnforcedTakesCompatiblePath ==
    \A p \in Procs :
        \A o \in cmd[p] :
            (path[p] # "none" /\ is_compatible(pkg[p], inst_ver[p])
                /\ ~o.force_dump_restore
                /\ ~(o.force /\ o.ver_option))
            => path[p] = "compatible"

C10_Witness ==
    \E p \in Procs :
        /\ path[p] = "compatible"
        /\ \E o \in cmd[p] : o.force /\ ~o.ver_option
        /\ pkg[p] = inst_ver[p]
        /\ pc[p] = "c_install"

\* C11: an upgrade that is not a no-op, to a version that is not compatible
\* with the instance's or with force_dump_restore set, takes the incompatible
\* path, whatever force and the version-selecting options are.
C11_IncompatibleOrDumpRestoreTakesIncompatiblePath ==
    \A p \in Procs :
        \A o \in cmd[p] :
            (path[p] # "none"
                /\ (~is_compatible(pkg[p], inst_ver[p]) \/ o.force_dump_restore))
            => path[p] = "incompatible"

C11_Witness ==
    \E p \in Procs :
        /\ path[p] = "incompatible"
        /\ pc[p] = "i_install"
        /\ is_compatible(pkg[p], inst_ver[p])
        /\ \E o \in cmd[p] : o.force_dump_restore /\ ~o.force /\ ~o.ver_option

\* C12 as stated: with force and a version-selecting option the incompatible
\* path is taken, also to the same or a compatible version; with force and no
\* version-selecting option a compatible target takes the compatible path.
C12_ForceTieBreak ==
    \A p \in Procs :
        \A o \in cmd[p] :
            path[p] # "none"
            => /\ (o.force /\ o.ver_option) => path[p] = "incompatible"
               /\ (o.force /\ ~o.ver_option /\ is_compatible(pkg[p], inst_ver[p]))
                     => path[p] = "compatible"

\* C12 amended: with force and a version-selecting option the incompatible
\* path is taken, also to the same or a compatible version; with force and no
\* version-selecting option a compatible target takes the compatible path
\* unless force_dump_restore is set.
C12_ForceTieBreakUnlessDumpRestore ==
    \A p \in Procs :
        \A o \in cmd[p] :
            path[p] # "none"
            => /\ (o.force /\ o.ver_option) => path[p] = "incompatible"
               /\ (o.force /\ ~o.ver_option /\ ~o.force_dump_restore
                        /\ is_compatible(pkg[p], inst_ver[p]))
                     => path[p] = "compatible"

C12_Witness ==
    \E p \in Procs :
        /\ path[p] = "incompatible"
        /\ pc[p] = "i_install"
        /\ pkg[p] = inst_ver[p]
        /\ \E o \in cmd[p] : o.force /\ o.ver_option /\ ~o.force_dump_restore

\* the upgrade_cloud call has sent no request and the cloud's instance is the
\* one it found
NothingSent ==
    /\ Len(cloud_requests) = cloud_locals.sent_before
    /\ cloud_instance = cloud_locals.inst

\* C13: upgrade_cloud with a target version not above the instance's and
\* without force returns action None with both versions, without a call of
\* confirm and without an upgrade request to the cloud.
C13_CloudNotNewerIsNone ==
    (/\ cloud_locals.inst_ver # NoVer
     /\ VerLe(cloud_locals.target_ver, cloud_locals.inst_ver)
     /\ ~cloud_args.force)
    => /\ cloud_pc = "done"
       /\ cloud_result.action = "None"
       /\ cloud_result.prior_version = cloud_locals.inst_ver
       /\ cloud_result.requested_version = cloud_locals.target_ver
       /\ confirmed = <<>>
       /\ NothingSent

C13_Witness ==
    /\ cloud_result.action = "None"
    /\ cloud_locals.target_ver = cloud_locals.inst_ver
    /\ ~cloud_args.force
    /\ cloud_locals.sent_before = 1

\* C14: whenever confirm was called and answered false, upgrade_cloud has
\* returned Cancelled and sent no upgrade request, whatever the versions and
\* force are.
C14_CloudDeclinedIsCancelled ==
    (confirmed # <<>> /\ confirmed[Len(confirmed)] = "no")
    => /\ cloud_pc = "done"
       /\ cloud_result.action = "Cancelled"
       /\ cloud_result.prior_version = cloud_locals.inst_ver
       /\ cloud_result.requested_version = cloud_locals.target_ver
       /\ NothingSent

C14_Witness ==
    /\ cloud_result.action = "Cancelled"
    /\ confirmed = <<"no">>
    /\ cloud_args.force
    /\ VerLe(cloud_locals.target_ver, cloud_locals.inst_ver)

\* C15: with a target version above the instance's and confirm answering
\* true, upgrade_cloud sends exactly one upgrade request, with org, name, the
\* target version and force, and if the request succeeds returns Upgraded
\* with the instance's version as prior_version and the target as
\* requested_version.
C15_CloudNewerConfirmedIsUpgraded ==
    (/\ confirmed = <<"yes">>
     /\ ~VerLe(cloud_locals.target_ver, cloud_locals.inst_ver))
    => \/ cloud_pc = "request" /\ NothingSent
       \/ /\ cloud_pc = "done"
          /\ Len(cloud_requests) = cloud_locals.sent_before + 1
          /\ LET req == cloud_requests[Len(cloud_requests)] IN
                /\ req.org = cloud_args.org
                /\ req.name = cloud_args.name
                /\ from_str(req.version) = cloud_locals.target_ver
                /\ req.force = cloud_args.force
          /\ cloud_result.action \in {"Upgraded", "Err"}
          /\ cloud_result.action = "Upgraded"
                => /\ cloud_result.prior_version
                         = from_str(cloud_locals.inst.version)
                   /\ cloud_result.requested_version = cloud_locals.target_ver

C15_Witness ==
    /\ cloud_result.action = "Upgraded"
    /\ confirmed = <<"yes">>
    /\ cloud_args.force
    /\ ~VerLe(cloud_locals.target_ver, cloud_locals.inst_ver)
    /\ cloud_instance.version = to_string(cloud_locals.target_ver)

\* the steps of upgrade_incompatible in the order of its code
StepOrder ==
    <<"Install", "DumpStop", "Backup", "ReinitDataDir", "Restore",
      "CopyTLSMaterial", "DeleteUpgradeMarker", "RegisterService", "Restart">>

\* the same steps with DeleteUpgradeMarker as the last one
MarkerLastOrder ==
    <<"Install", "DumpStop", "Backup", "ReinitDataDir", "Restore",
      "CopyTLSMaterial", "RegisterService", "Restart", "DeleteUpgradeMarker">>

\* the step that a position of upgrade_incompatible belongs to
StepName(l) ==
    CASE l = "i_install" -> "Install"
      [] l \in DumpPhase -> "DumpStop"
      [] l \in BackupPhase \cup {"b_check"} -> "Backup"
      [] l = "r_mkdir" -> "ReinitDataDir"
      [] l \in {"r_spawn", "r_restore", "r_meta"} -> "Restore"
      [] l \in {"r_cert", "r_key"} -> "CopyTLSMaterial"
      [] l = "s_service" -> "RegisterService"
      [] l = "s_restart" -> "Restart"
      [] l = "m_remove" -> "DeleteUpgradeMarker"

Rank(order, l) == CHOOSE i \in 1..Len(order) : order[i] = StepName(l)

\* a step of an invocation stays in its step of the order or goes on to the
\* next one
InOrder(order, p) ==
    Rank(order, pc'[p]) \in {Rank(order, pc[p]), Rank(order, pc[p]) + 1}

PastRename(p) ==
    /\ path[p] = "incompatible"
    /\ \/ pc[p] \in ReinitPhase \cup {"m_remove", "s_service", "s_restart"}
       \/ /\ pc[p] = "done"
          /\ outcome[p] \in {"needs_revert", "remove_marker_failed",
                              "restart_failed", "ok"}

\* the new data_dir holds the restored dump, the new instance metadata and
\* the certificate and key of the old data directory
Restored(p) ==
    /\ data_dir.exists /\ backup_dir.exists
    /\ data_dir.store = restore_all(dump_path, pkg[p].major)
    /\ data_dir.info = pkg[p]
    /\ data_dir.cert = backup_dir.cert /\ data_dir.cert # "self_signed_cert"
    /\ data_dir.key = backup_dir.key /\ data_dir.key # "self_signed_key"

\* C17: after the rename of data_dir to backup_dir, upgrade_marker is absent
\* only if the restore, the write of the new instance metadata and the copies
\* of certificate and key have all succeeded: the only step of an upgrade
\* that deletes the marker is the one after these, and no step that ends the
\* upgrade with an error changes the marker.
C17_MarkerAbsentOnlyWhenRestored ==
    [][\A p \in Procs :
          /\ (PastRename(p) /\ ~upgrade_marker.exists)' => Restored(p)'
          /\ (InFlight(p) /\ upgrade_marker.exists /\ ~upgrade_marker'.exists)
                => pc[p] = "m_remove" /\ pc'[p] = "s_service" /\ Restored(p)
          /\ (InFlight(p) /\ pc'[p] = "done" /\ outcome'[p] # "ok")
                => upgrade_marker' = upgrade_marker]_vars

C17_Witness ==
    \E p \in Procs :
        /\ PastRename(p)
        /\ outcome[p] = "restart_failed"
        /\ ~upgrade_marker.exists
        /\ Restored(p)
        /\ pkg[p].major # inst_ver[p].major

\* the data directory an invocation found, with the backup.json that its
\* backup writes
WithBackupJson(p) == [pre[p].data_dir EXCEPT !.backup_json = clock]

\* C18: backup writes upgrade_marker first, then backup.json into the live
\* data_dir, then removes an existing backup_dir, then renames data_dir to
\* backup_dir; when it has returned Ok, data_dir does not exist and
\* backup_dir is the data directory the invocation found.
C18_BackupOrder ==
    \A p \in Procs :
        /\ pc[p] = "b_marker"
              => /\ ~upgrade_marker.exists
                 /\ data_dir = pre[p].data_dir
                 /\ backup_dir = pre[p].backup_dir
        /\ pc[p] = "b_meta"
              => /\ upgrade_marker.exists
                 /\ upgrade_marker.source = inst_ver[p]
                 /\ upgrade_marker.target = pkg[p]
                 /\ data_dir = pre[p].data_dir
                 /\ backup_dir = pre[p].backup_dir
        /\ pc[p] = "b_rmstale"
              => /\ upgrade_marker.exists
                 /\ data_dir = WithBackupJson(p)
                 /\ backup_dir = pre[p].backup_dir
        /\ pc[p] = "b_rename"
              => /\ upgrade_marker.exists
                 /\ data_dir = WithBackupJson(p)
                 /\ ~backup_dir.exists
        /\ pc[p] = "r_mkdir"
              => /\ upgrade_marker.exists
                 /\ ~data_dir.exists
                 /\ backup_dir = WithBackupJson(p)

C18_Witness ==
    \E p \in Procs :
        /\ pc[p] = "r_mkdir"
        /\ pre[p].backup_dir.exists
        /\ backup_dir # pre[p].backup_dir
        /\ ~data_dir.exists

\* C19: in every state of backup after the write of upgrade_marker and before
\* the rename, and after a crash in such a state, upgrade_marker exists and
\* data_dir is the data directory the invocation found, at most with
\* backup.json added.
C19_OriginalUntilRename ==
    [][\A p \in Procs :
          (\/ pc'[p] \in {"b_meta", "b_rmstale", "b_rename"}
           \/ pc[p] \in {"b_meta", "b_rmstale", "b_rename"} /\ pc'[p] = "crashed")
          => /\ upgrade_marker'.exists
             /\ data_dir'.exists
             /\ SameButBackupJson(data_dir', pre'[p].data_dir)
             /\ data_dir'.backup_json \in {pre'[p].data_dir.backup_json, clock'}]_vars

C19_Witness ==
    \E p \in Procs :
        /\ pc[p] = "crashed"
        /\ ~pre[p].upgrade_marker.exists
        /\ upgrade_marker.exists
        /\ ~marked.renamed
        /\ data_dir # pre[p].data_dir

CompatOrder ==
    {<<"c_install", "c_meta">>, <<"c_meta", "c_service">>,
     <<"c_service", "c_restart">>, <<"c_restart", "done">>}

CompatPhase == {"c_install", "c_meta", "c_service", "c_restart"}

\* C20: a run on the compatible path goes through install, write of
\* instance_info.json, service registration and restart in this order and
\* returns Ok only after the restart; none of its steps changes
\* upgrade_marker, dump_path or backup_dir, removes or renames data_dir or
\* changes the stored data, and it never gets to a position of
\* upgrade_incompatible; a run on the incompatible path never gets to a
\* position of upgrade_compatible.
C20_CompatiblePathFrame ==
    [][\A p \in Procs :
          /\ (path[p] = "compatible" /\ InFlight(p))
                => /\ upgrade_marker' = upgrade_marker
                   /\ dump_path' = dump_path
                   /\ backup_dir' = backup_dir
                   /\ data_dir'.exists = data_dir.exists
                   /\ data_dir'.store = data_dir.store
                   /\ path'[p] = "compatible"
                   /\ \/ pc'[p] = pc[p]
                      \/ <<pc[p], pc'[p]>> \in CompatOrder
                      \/ pc'[p] = "done" /\ outcome'[p] # "ok"
                      \/ pc'[p] = "crashed"
                   /\ (pc'[p] = "done" /\ outcome'[p] = "ok")
                         => /\ pkg[p] \in installed'
                            /\ data_dir'.info = pkg[p]
                            /\ server' = "service"
          /\ (path[p] = "incompatible" /\ InFlight(p))
                => /\ pc'[p] \notin CompatPhase
                   /\ path'[p] = "incompatible"]_vars

C20_Witness ==
    \E p \in Procs :
        /\ path[p] = "compatible"
        /\ outcome[p] = "ok"
        /\ pkg[p] # inst_ver[p]
        /\ data_dir.info = pkg[p]
        /\ pre[p].backup_dir.exists
        /\ backup_dir = pre[p].backup_dir

\* the files of the instance and the server's run state
Files == <<data_dir, backup_dir, dump_path, upgrade_marker, installed>>

\* C21: on both paths the create_service step, whether the registration
\* succeeds or fails, changes no file and goes on to the restart, never to an
\* error return; the restart that follows changes no file either and, when it
\* succeeds, the upgrade returns Ok with the server running.
C21_RegistrationFailureIgnored ==
    [][\A p \in Procs :
          /\ (pc[p] \in {"s_service", "c_service"} /\ pc'[p] \notin {pc[p], "crashed"})
                => /\ pc'[p] = (IF pc[p] = "s_service" THEN "s_restart"
                                                       ELSE "c_restart")
                   /\ UNCHANGED Files
                   /\ UNCHANGED server
          /\ (pc[p] \in {"s_restart", "c_restart"} /\ pc'[p] = "done")
                => /\ UNCHANGED Files
                   /\ outcome'[p] \in {"ok", "restart_failed"}
                   /\ outcome'[p] = "ok" => server' = "service"]_vars

C21_Witness ==
    \E p \in Procs :
        /\ outcome[p] = "ok"
        /\ registered # pkg[p]
        /\ server = "service"
        /\ data_dir.info = pkg[p]

\* C22: in dump_and_stop a failure of do_start does not end the upgrade: the
\* server is spawned by hand, the dump is taken from the running process,
\* the process is ended, and dump_and_stop returns to backup with the server
\* stopped and the dump of the found data directory, as after a
\* service-managed dump; a run on the fallback fails only with the error of
\* dump_and_stop.
C22_StartFailureFallsBack ==
    [][\A p \in Procs :
          /\ (pc[p] = "d_start" /\ pc'[p] \notin {pc[p], "crashed"})
                => pc'[p] \in {"d_remove", "d_fallback"}
          /\ (pc[p] = "d_fallback" /\ pc'[p] = "d_remove")
                => server' = "manual" /\ spawned'[p]
          /\ (spawned[p] /\ pc[p] = "d_dump" /\ pc'[p] = "d_stop")
                => /\ server = "manual"
                   /\ dump_path' = dump_all(data_dir)
          /\ (spawned[p] /\ pc[p] \in DumpPhase /\ pc'[p] = "done")
                => outcome'[p] = "dump_failed" /\ server' = "stopped"
          /\ (spawned[p] /\ pc[p] = "d_stop" /\ pc'[p] \notin {pc[p], "crashed"})
                => pc'[p] = "b_check"
          /\ pc'[p] = "b_check"
                => /\ server' = "stopped"
                   /\ ~spawned'[p]
                   /\ dump_path' = dump_all(pre'[p].data_dir)
                   /\ data_dir' = pre'[p].data_dir]_vars

C22_Witness ==
    \E p \in Procs :
        /\ pc[p] = "d_stop"
        /\ spawned[p]
        /\ server = "manual"
        /\ dump_path = dump_all(data_dir)
        /\ Logical(data_dir) = Records

\* C23: an invocation ends with the needs-revert status only from a step of
\* reinit_and_restore; every other step that ends it with an error gives
\* another status and prints no revert command.
C23_NeedsRevertOnlyFromReinit ==
    [][\A p \in Procs :
          (pc'[p] = "done" /\ (InFlight(p) \/ clock' # clock))
          => /\ outcome'[p] = "needs_revert" => pc[p] \in ReinitPhase
             /\ pc[p] \notin ReinitPhase
                   => /\ outcome'[p] # "needs_revert"
                      /\ told'[p] = "nothing"]_vars

C23_Witness ==
    \E p \in Procs :
        /\ outcome[p] = "needs_revert"
        /\ ~data_dir.exists
        /\ backup_dir.exists
        /\ upgrade_marker.exists

\* an invocation for which the catalog had no package, for an instance whose
\* metadata could be read
NoPackage(p) == pc[p] # "idle" /\ pkg[p] = NoVer /\ inst_ver[p] # NoVer

\* C24 as stated: when the catalog has no package for the query,
\* upgrade_local_cmd returns the "no package found" error and the files and
\* the run state of the instance are as it found them.
C24_NoPackageFails ==
    \A p \in Procs :
        NoPackage(p)
        => pc[p] = "done" /\ outcome[p] = "no_package" /\ Snapshot = pre[p]

\* C24 amended: when the catalog has no package for the query,
\* upgrade_local_cmd returns an error and the files and the run state of the
\* instance are as it found them; the error is "no package found" unless a
\* project directory uses the instance and force is not set, when it is the
\* "Upgrade aborted" of check_project, which runs before the catalog is asked.
C24_NoPackageFailsAfterProjectCheck ==
    \A p \in Procs :
        NoPackage(p)
        => /\ pc[p] = "done"
           /\ Snapshot = pre[p]
           /\ \A o \in cmd[p] :
                 outcome[p] = (IF in_project[p] /\ ~o.force THEN "aborted"
                                                            ELSE "no_package")
           /\ cmd[p] # {}

C24_Witness ==
    \E p \in Procs :
        /\ NoPackage(p)
        /\ outcome[p] = "no_package"
        /\ in_project[p]
        /\ \E o \in cmd[p] : o.force /\ o.force_dump_restore
        /\ backup_dir.exists

\* the number of upgrade requests the upgrade_cloud call has sent
Sent == Len(cloud_requests) - cloud_locals.sent_before

\* C25: a call of upgrade_cloud sends at most one upgrade request, and only
\* after its one call of confirm answered true; it returns Upgraded only when
\* it has sent the request, and an error when the instance lookup, the
\* version resolution, confirm or the request itself failed.
C25_CloudRequestAtMostOnce ==
    /\ Sent \in {0, 1}
    /\ Len(confirmed) <= 1
    /\ Sent = 1 => confirmed = <<"yes">> /\ cloud_pc = "done"
    /\ cloud_result.action = "Upgraded"
          => /\ Sent = 1
             /\ cloud_instance
                   = Carried(cloud_locals.inst, cloud_requests[Len(cloud_requests)])
    /\ (/\ cloud_pc = "done"
        /\ \/ ~cloud_locals.inst.exists
           \/ cloud_locals.target_ver = NoVer
           \/ cloud_locals.inst_ver = NoVer
           \/ confirmed = <<"error">>)
          => cloud_result.action = "Err" /\ Sent = 0
    /\ (cloud_pc = "done" /\ Sent = 1)
          => cloud_result.action \in {"Upgraded", "Err"}
    /\ cloud_result.error = "request failed"
          => cloud_result.action = "Err" /\ Sent = 1

C25_Witness ==
    /\ cloud_result.action = "Upgraded"
    /\ cloud_args.force
    /\ VerLe(cloud_locals.target_ver, cloud_locals.inst_ver)
    /\ cloud_locals.target_ver # cloud_locals.inst_ver
    /\ confirmed = <<"yes">>
    /\ Sent = 1

\* C26: while an invocation is in backup, and at the rename of data_dir to
\* backup_dir, no server process runs on the data directory: dump_and_stop
\* has stopped the server it used, and a failed stop ends the upgrade with
\* the error of dump_and_stop, with marker, data_dir and backup_dir untouched.
C26_ServerStoppedBeforeRename ==
    [][\A p \in Procs :
          /\ pc'[p] \in BackupPhase \cup {"b_check"}
                => server' = "stopped" /\ ~spawned'[p]
          /\ (pc[p] = "b_rename" /\ pc'[p] = "r_mkdir")
                => /\ server = "stopped"
                   /\ backup_dir' = data_dir
                   /\ ~data_dir'.exists
          /\ (pc[p] = "d_stop" /\ pc'[p] = "done")
                => /\ outcome'[p] = "dump_failed"
                   /\ UNCHANGED <<upgrade_marker, data_dir, backup_dir>>]_vars

C26_Witness ==
    \E p \in Procs :
        /\ pc[p] = "r_mkdir"
        /\ pre[p].server = "service"
        /\ server = "stopped"
        /\ ~data_dir.exists
        /\ backup_dir.exists

\* C27: when an incompatible upgrade returns Ok, the certificate and the key
\* in data_dir are the ones in backup_dir, which are the ones of the data
\* directory the invocation found, and instance_info.json names the package
\* it installed; a failed copy of either file ends the upgrade with the
\* needs-revert status and the marker in place.
C27_TlsMaterialCarriedOver ==
    [][\A p \in Procs :
          /\ (pc'[p] = "done" /\ outcome'[p] = "ok" /\ path'[p] = "incompatible")
                => /\ data_dir'.cert = backup_dir'.cert
                   /\ data_dir'.cert = pre'[p].data_dir.cert
                   /\ data_dir'.key = backup_dir'.key
                   /\ data_dir'.key = pre'[p].data_dir.key
                   /\ data_dir'.cert # data_dir'.key
                   /\ data_dir'.info = pkg'[p]
                   /\ pkg'[p] \in installed'
          /\ (pc[p] \in {"r_cert", "r_key"} /\ pc'[p] = "done")
                => /\ outcome'[p] = "needs_revert"
                   /\ upgrade_marker'.exists
                   /\ UNCHANGED <<data_dir, backup_dir>>]_vars

C27_Witness ==
    \E p \in Procs :
        /\ outcome[p] = "ok"
        /\ path[p] = "incompatible"
        /\ data_dir.cert = "orig_cert"
        /\ data_dir.key = "orig_key"
        /\ data_dir.info = pkg[p]
        /\ backup_dir.info = inst_ver[p]
        /\ pkg[p] # inst_ver[p]

=============================================================================
